---- MODULE Spec2Model ----
(***************************************************************************)
(* The shopping-cart backend of shopping_cart_rust: one concurrent map of  *)
(* carts (AppState.carts, a DashMap) written by the MCP tools add_to_cart  *)
(* and checkout (mcp/handlers.rs) and by the REST endpoints /sync_cart and *)
(* /checkout (cart/handlers.rs), served by concurrent workers.             *)
(***************************************************************************)
EXTENDS Integers, Sequences, FiniteSets, TLC

\* ------------------------------------------------------------------------
\* Bounds of the model
\* ------------------------------------------------------------------------

\* Requests accepted in one behaviour (caps the growth of quantities).
MaxRequests == 3

\* The worker tasks that serve requests concurrently.
ProcOrder == <<"w1", "w2">>
Procs == {ProcOrder[i] : i \in 1..Len(ProcOrder)}

\* Cart ids a client makes up, and the ids Uuid::new_v4() hands out, in order
\* (a request that needs a fresh id is not taken once the pool is used up).
ClientIds == {"A", "B"}
UuidPool == <<"u1", "u2">>
UuidIds == {UuidPool[i] : i \in 1..Len(UuidPool)}
AllIds == ClientIds \cup UuidIds

\* The shards of the DashMap, each behind one read-write lock.
ShardOrder == <<"s0", "s1">>
Shards == {ShardOrder[i] : i \in 1..Len(ShardOrder)}

\* A JSON field that is absent from the input.
Missing == "<missing>"
\* A JSON field whose value has a type the struct does not accept.
BadType == "<bad-type>"
\* No worker.
NoOwner == "<none>"

\* ------------------------------------------------------------------------
\* u32 quantities, kept at their width in two 16-bit limbs <<hi, lo>>
\* ------------------------------------------------------------------------

LimbBase == 65536

U32(n) == <<n \div LimbBase, n % LimbBase>>
U32Max == <<LimbBase - 1, LimbBase - 1>>

\* a + b on u32: the wrapped value and whether the exact sum left the range.
U32Add(a, b) ==
  LET lo == a[2] + b[2]
      hi == a[1] + b[1] + (lo \div LimbBase)
  IN [value |-> <<hi % LimbBase, lo % LimbBase>>, overflow |-> hi >= LimbBase]

\* Exact naturals in three limbs <<top, hi, lo>>, for sums that may leave u32.
NatZero == <<0, 0, 0>>
NatOfU32(q) == <<0, q[1], q[2]>>
NatAdd(t, q) ==
  LET lo == t[3] + q[2]
      hi == t[2] + q[1] + (lo \div LimbBase)
  IN <<t[1] + (hi \div LimbBase), hi % LimbBase, lo % LimbBase>>

\* ------------------------------------------------------------------------
\* Domain models (cart/models.rs)
\* ------------------------------------------------------------------------

default_quantity == U32(1)

\* The flattened extra fields of an item, as a set of <<key, value>> pairs.
NoExtra == {}
PriceExtra == {<<"price", "5">>}
NoteExtra == {<<"note", "ripe">>}

CartItem(name, quantity, extra) ==
  [name |-> name, quantity |-> quantity, extra |-> extra]

\* An item as it arrives in JSON: name and quantity may be absent or ill-typed.
RawQty(k, v) == [k |-> k, v |-> v]
QtyAbsent == RawQty("absent", U32(0))
QtyInvalid == RawQty("invalid", U32(0))
Qty(n) == RawQty("u32", U32(n))
QtyMax == RawQty("u32", U32Max)
RawItem(name, qty, extra) == [name |-> name, quantity |-> qty, extra |-> extra]

\* serde's Deserialize for CartItem: name is required (any string, the empty
\* one included), quantity defaults to 1 and must fit u32, the rest is extra.
CartItemValid(raw) ==
  /\ raw.name \notin {Missing, BadType}
  /\ raw.quantity.k # "invalid"

DeserializeCartItem(raw) ==
  CartItem(raw.name,
           IF raw.quantity.k = "absent" THEN default_quantity ELSE raw.quantity.v,
           raw.extra)

\* A tool argument / REST body: a JSON object with optional items and cartId,
\* or JSON null (tools/call without arguments).
Payload(items, cartId) ==
  [json |-> "object", hasItems |-> TRUE, items |-> items, cartId |-> cartId]
PayloadNoItems(cartId) ==
  [json |-> "object", hasItems |-> FALSE, items |-> <<>>, cartId |-> cartId]
PayloadNull ==
  [json |-> "null", hasItems |-> FALSE, items |-> <<>>, cartId |-> Missing]

\* serde's Deserialize for AddToCartInput: an object with an items array of
\* valid items; cartId absent or a string.  Unknown fields are ignored.
AddToCartInputValid(args) ==
  /\ args.json = "object"
  /\ args.hasItems
  /\ args.cartId # BadType
  /\ \A i \in 1..Len(args.items) : CartItemValid(args.items[i])

DeserializeAddToCartInput(args) ==
  [items |-> [i \in 1..Len(args.items) |-> DeserializeCartItem(args.items[i])],
   cart_id |-> args.cartId]

\* serde's Deserialize for CheckoutInput: an object; cartId absent or a string.
CheckoutInputValid(args) ==
  /\ args.json = "object"
  /\ args.cartId # BadType

DeserializeCheckoutInput(args) == [cart_id |-> args.cartId]

\* ------------------------------------------------------------------------
\* Business logic helpers (cart/helpers.rs)
\* ------------------------------------------------------------------------

Min(S) == CHOOSE m \in S : \A n \in S : m <= n

\* Positions of cart_items whose name is `name`.
Matches(cart_items, name) ==
  {i \in 1..Len(cart_items) : cart_items[i].name = name}

\* A merge that appends every incoming item without looking for its name:
\* what update_cart_with_new_items does not do.
merge_appending(cart_items, new_items, checks) ==
  [items |-> cart_items \o new_items, panicked |-> FALSE]

\* A merge that also takes the extra fields of the incoming item on a match:
\* what update_cart_with_new_items does not do.
RECURSIVE merge_taking_extra(_, _, _)
merge_taking_extra(cart_items, new_items, checks) ==
  IF new_items = <<>>
  THEN [items |-> cart_items, panicked |-> FALSE]
  ELSE LET incoming == Head(new_items)
           found == Matches(cart_items, incoming.name)
       IN IF found # {}
          THEN LET i == Min(found)
                   s == U32Add(cart_items[i].quantity, incoming.quantity)
               IN IF s.overflow /\ checks
                  THEN [items |-> cart_items, panicked |-> TRUE]
                  ELSE merge_taking_extra(
                         [cart_items EXCEPT ![i].quantity = s.value,
                                            ![i].extra = incoming.extra],
                         Tail(new_items), checks)
          ELSE merge_taking_extra(
                 Append(cart_items, incoming), Tail(new_items), checks)

\* `existing.quantity += incoming.quantity` wraps in a build without overflow
\* checks and panics in a build with them; a panic leaves the items merged so
\* far in place.
RECURSIVE update_cart_with_new_items(_, _, _)
update_cart_with_new_items(cart_items, new_items, checks) ==
  IF new_items = <<>>
  THEN [items |-> cart_items, panicked |-> FALSE]
  ELSE LET incoming == Head(new_items)
           found == Matches(cart_items, incoming.name)
       IN IF found # {}
          THEN LET i == Min(found)
                   s == U32Add(cart_items[i].quantity, incoming.quantity)
               IN IF s.overflow /\ checks
                  THEN [items |-> cart_items, panicked |-> TRUE]
                  ELSE update_cart_with_new_items(
                         [cart_items EXCEPT ![i].quantity = s.value],
                         Tail(new_items), checks)
          ELSE update_cart_with_new_items(
                 Append(cart_items, incoming), Tail(new_items), checks)

\* "{quantity}x {name}" per item, joined in order: the extra fields are dropped.
format_item_summary(items) ==
  [i \in 1..Len(items) |-> [quantity |-> items[i].quantity, name |-> items[i].name]]

\* The session's id whatever the body says.
session_cart_id(cart_id, default_id) == default_id

get_or_default_cart_id(cart_id, default_id) ==
  IF cart_id = Missing THEN default_id ELSE cart_id

\* A Cookie header: absent, or the parts between ';'.  A part is
\* "cart_session=" repeated `prefixes` times followed by `rest` (prefixes = 0
\* for any other cookie); to_str() fails on a header that is not visible ASCII.
CookiePart(prefixes, rest) == [prefixes |-> prefixes, rest |-> rest]
CookieHeader(present, ascii, parts) ==
  [present |-> present, ascii |-> ascii, parts |-> parts]
NoCookie == CookieHeader(FALSE, TRUE, <<>>)

\* The first part that starts with "cart_session=" and is non-empty once every
\* leading "cart_session=" is trimmed.
SessionParts(headers) ==
  {i \in 1..Len(headers.parts) :
     headers.parts[i].prefixes >= 1 /\ headers.parts[i].rest # ""}

\* resolve_session_id: (session_id, is_new); fresh is the id Uuid::new_v4()
\* returns when it is called.
resolve_session_id(headers, fresh) ==
  IF headers.present /\ headers.ascii /\ SessionParts(headers) # {}
  THEN [session_id |-> headers.parts[Min(SessionParts(headers))].rest,
        is_new |-> FALSE]
  ELSE [session_id |-> fresh, is_new |-> TRUE]

\* ------------------------------------------------------------------------
\* MCP protocol helpers (mcp/helpers.rs, mcp/models.rs)
\* ------------------------------------------------------------------------

TOOL_NAME == "add_to_cart"
CHECKOUT_TOOL_NAME == "checkout"
WIDGET_TEMPLATE_URI == "ui://widget/shopping-cart.html"
WIDGET_MIME_TYPE == "text/html+skybridge"
SERVER_NAME == "shopping-cart-rust"
PROTOCOL_VERSION == "2024-11-05"

ParseError == -32700
MethodNotFound == -32601
InvalidParams == -32602

StatusOk == 200
StatusBadRequest == 400
StatusUnprocessable == 422

\* session is <<>> (None) or <<id>> (Some(id)).
widget_meta(session) ==
  [outputTemplate |-> WIDGET_TEMPLATE_URI,
   widgetAccessible |-> TRUE,
   widgetSessionId |-> session]

JsonNull == "null"

\* A success envelope that does not echo the id.
rpc_success_without_id(id, result) ==
  [jsonrpc |-> "2.0", id |-> JsonNull, kind |-> "result", result |-> result]

rpc_success(id, result) ==
  [jsonrpc |-> "2.0", id |-> id, kind |-> "result", result |-> result]

\* An error envelope that does not echo the id.
rpc_error_without_id(id, code, message) ==
  [jsonrpc |-> "2.0", id |-> JsonNull, kind |-> "error",
   error |-> [code |-> code, message |-> message]]

rpc_error(id, code, message) ==
  [jsonrpc |-> "2.0", id |-> id, kind |-> "error",
   error |-> [code |-> code, message |-> message]]

\* Json(body).into_response(), a status with a JSON body, and the connection
\* a panicking handler leaves without a response.
HttpResponse(status, body, set_cookie) ==
  [status |-> status, body |-> body, set_cookie |-> set_cookie]
Aborted == [status |-> 0, body |-> [kind |-> "aborted"], set_cookie |-> <<>>]

\* A body that says "updated" whatever was done: what SyncResponse is not.
SyncResponseUpdated(status, cart_id) ==
  [kind |-> "rest", status |-> "updated", cartId |-> cart_id]

SyncResponse(status, cart_id) ==
  [kind |-> "rest", status |-> status, cartId |-> cart_id]

\* ------------------------------------------------------------------------
\* State
\* ------------------------------------------------------------------------

VARIABLES
  carts,           \* AppState.carts: cart id -> items, for the ids present
  shardLock,       \* the holder of each shard's write lock, or NoOwner
  shardOf,         \* the shard of each key hashed so far (fixed once hashed)
  overflowChecks,  \* the settings of overflow-checks the build may have, given
                   \* what the execution has shown: checked (TRUE) panics,
                   \* unchecked (FALSE) wraps
  pc,              \* per worker: "idle", "blocked" or "merge"
  frame,           \* per worker: <<>> or <<the locals of its handler>>
  out,             \* <<>> or <<the request answered by the last step and its response>>
  found,           \* history: <<>> or <<what the last step's map operation found
                   \* under its key>>
  issued,          \* how many ids Uuid::new_v4() has handed out
  served,          \* requests accepted so far
  opLog,           \* history: per cart id, the kinds of map operations applied
  tally            \* history: per cart id, the exact sum sent per name by the
                   \* add_to_cart calls merged since the last sync or checkout

history == <<opLog, tally>>
vars == <<carts, shardLock, shardOf, overflowChecks, pc, frame, out, found,
          issued, served, opLog, tally>>

Init ==
  /\ carts = <<>>
  /\ shardLock = [s \in Shards |-> NoOwner]
  /\ shardOf = <<>>
  /\ overflowChecks = BOOLEAN
  /\ pc = [p \in Procs |-> "idle"]
  /\ frame = [p \in Procs |-> <<>>]
  /\ out = <<>>
  /\ found = <<>>
  /\ issued = 0
  /\ served = 0
  /\ opLog = [c \in AllIds |-> <<>>]
  /\ tally = [c \in AllIds |-> <<>>]

\* ------------------------------------------------------------------------
\* The concurrent map (cart/state.rs: AppState.carts, a DashMap)
\* ------------------------------------------------------------------------

\* The shards in use, and the first one not in use (shards are numbered in
\* the order of their first use).
UsedShards == {shardOf[k] : k \in DOMAIN shardOf}
NextShard ==
  {ShardOrder[i] : i \in {j \in 1..Len(ShardOrder) : j = Cardinality(UsedShards) + 1}}

\* The shards key c can hash to: the one it hashed to before, or, for a key
\* the map's randomly seeded hasher has not seen yet, any.
DetermineShard(c) ==
  IF c \in DOMAIN shardOf THEN {shardOf[c]} ELSE UsedShards \cup NextShard

Hashed(c, s) ==
  [k \in (DOMAIN shardOf) \cup {c} |-> IF k = c THEN s ELSE shardOf[k]]

\* A map without locks, and a map with one lock over all its shards.
Unlocked(s) == TRUE
NoShardHeld(s) == \A t \in Shards : shardLock[t] = NoOwner

\* The write lock of shard s can be taken.
ShardFree(s) == shardLock[s] = NoOwner

\* An insert that extends the list it finds, and a remove that leaves an
\* empty list behind: what DashMap::insert and DashMap::remove do not do.
InsertedAfter(c, items) ==
  [k \in (DOMAIN carts) \cup {c} |->
     IF k # c THEN carts[k]
     ELSE IF c \in DOMAIN carts THEN carts[c] \o items ELSE items]
Cleared(c) == [k \in DOMAIN carts |-> IF k = c THEN <<>> ELSE carts[k]]

\* DashMap::insert and DashMap::remove, as values of the map.
Inserted(c, items) ==
  [k \in (DOMAIN carts) \cup {c} |-> IF k = c THEN items ELSE carts[k]]
Removed(c) == [k \in (DOMAIN carts) \ {c} |-> carts[k]]

\* The ids the server has handed out.
IssuedIds == {UuidPool[i] : i \in 1..issued}

\* The ids made up by handlers that have not answered yet: no client has seen
\* them.
PendingIds ==
  {frame[p][1].cart_id : p \in {q \in Procs :
      /\ frame[q] # <<>>
      /\ frame[q][1].handler \in {"add_to_cart", "checkout_tool"}
      /\ frame[q][1].req.body.params.arguments.cartId = Missing}}
  \cup
  {frame[p][1].session_id : p \in {q \in Procs :
      /\ frame[q] # <<>>
      /\ frame[q][1].handler \in {"sync_cart", "checkout"}
      /\ frame[q][1].is_new_session}}

\* The ids a client can send besides its own: those a response has carried.
KnownIds == IssuedIds \ PendingIds

\* Uuid::new_v4(): the n-th id handed out after those already issued.
CanIssue(n) == issued + n <= Len(UuidPool)
Fresh(n) == IF CanIssue(n) THEN UuidPool[issued + n] ELSE Missing

\* A resolver that falls back on a cart of a client instead of a new uuid:
\* what get_or_create_cart_id does not do.
get_or_shared_cart_id(cart_id) ==
  IF cart_id = Missing THEN "A" ELSE cart_id

\* get_or_create_cart_id (helpers.rs): the given id, or a new uuid.
get_or_create_cart_id(cart_id) ==
  IF cart_id = Missing THEN Fresh(1) ELSE cart_id

\* ------------------------------------------------------------------------
\* Inputs
\* ------------------------------------------------------------------------

Apple3 == RawItem("Apple", Qty(3), NoExtra)
Apple2 == RawItem("Apple", Qty(2), NoExtra)
Banana2 == RawItem("Banana", Qty(2), NoExtra)
Apple3Price == RawItem("Apple", Qty(3), PriceExtra)
Banana1Note == RawItem("Banana", QtyAbsent, NoteExtra)
AppleMax == RawItem("Apple", QtyMax, NoExtra)
Unnamed1 == RawItem("", QtyAbsent, NoExtra)
NoName2 == RawItem(Missing, Qty(2), NoExtra)
AppleBadQty == RawItem("Apple", QtyInvalid, NoExtra)

\* Item lists that deserialize, and item lists that do not.
GoodItemLists ==
  { <<>>, <<Apple3, Banana2>>, <<Apple2>>, <<Apple3Price, Banana1Note>>,
    <<Banana2, Banana2>>, <<AppleMax>>, <<Unnamed1>> }
BadItemLists == { <<NoName2>>, <<Apple2, AppleBadQty>> }

\* Inputs that deserialize into neither AddToCartInput nor, for the first two,
\* CheckoutInput.
BadPayloads ==
  {PayloadNull, Payload(<<Apple2>>, BadType), PayloadNoItems("A")}
  \cup {Payload(l, "A") : l \in BadItemLists}

\* JSON arguments of add_to_cart.
AddPayloads ==
  {Payload(l, "A") : l \in GoodItemLists}
  \cup {Payload(l, "B") : l \in {<<Apple2>>, <<Apple3, Banana2>>}}
  \cup {Payload(<<Apple2>>, c) : c \in {Missing} \cup KnownIds}
  \cup BadPayloads

\* JSON arguments of checkout and bodies of POST /checkout.
CheckoutPayloads ==
  {PayloadNoItems(c) : c \in {Missing} \cup ClientIds \cup KnownIds}
  \cup {PayloadNull, PayloadNoItems(BadType), Payload(<<Apple2>>, "A")}

\* Bodies of POST /sync_cart.
SyncPayloads ==
  {Payload(l, "A") : l \in {<<>>, <<Apple2>>, <<Banana2, Banana2>>,
                            <<Apple3Price, Banana1Note>>}}
  \cup {Payload(<<Banana2>>, "B"), Payload(<<Apple2>>, Missing)}
  \cup BadPayloads

\* Cookie headers: a session cookie, alone or after another cookie, one with
\* an empty value, one whose value repeats the prefix, one that is not ASCII.
SessionCookie(c) == CookieHeader(TRUE, TRUE, <<CookiePart(1, c)>>)
CookieHeaders ==
  {SessionCookie(c) : c \in {"B"} \cup KnownIds} \cup
  {CookieHeader(TRUE, TRUE, <<CookiePart(0, "theme=dark"), CookiePart(1, "")>>),
   CookieHeader(TRUE, TRUE, <<CookiePart(1, ""), CookiePart(2, "B")>>),
   CookieHeader(TRUE, FALSE, <<CookiePart(1, "B")>>)}

\* What arrives at POST /sync_cart and POST /checkout: any body without a
\* Cookie header, a body without cartId under each Cookie header, and bodies
\* with a cartId under a Cookie header that names another cart.
SyncRequests ==
  {<<NoCookie, b>> : b \in SyncPayloads} \cup
  {<<h, b>> : h \in CookieHeaders,
              b \in {Payload(<<Apple2>>, Missing), Payload(<<Apple2>>, "A")}}
CheckoutRequests ==
  {<<NoCookie, b>> : b \in CheckoutPayloads} \cup
  {<<h, PayloadNoItems(Missing)>> : h \in CookieHeaders} \cup
  {<<SessionCookie("B"), PayloadNoItems("A")>>}

\* The id member of a JSON-RPC request, as JSON text.
JsonIds == {Missing, JsonNull, "11"}

KnownMethods ==
  {"initialize", "notifications/initialized", "tools/list", "resources/list",
   "resources/read", "tools/call", "ping"}
OtherMethods == {"unknown/method", "Ping"}

\* The params of a JSON-RPC request: name and arguments, each optional.
Params(name, hasArguments, arguments) ==
  [name |-> name, hasArguments |-> hasArguments, arguments |-> arguments]
NoParams == Params(Missing, FALSE, PayloadNull)

ToolParams ==
  {Params(TOOL_NAME, TRUE, a) : a \in AddPayloads}
  \cup {Params(CHECKOUT_TOOL_NAME, TRUE, a) : a \in CheckoutPayloads}
  \cup {Params(TOOL_NAME, FALSE, PayloadNull),
        Params(CHECKOUT_TOOL_NAME, FALSE, PayloadNull),
        Params("unknown_tool", TRUE, PayloadNoItems(Missing)),
        Params(BadType, TRUE, PayloadNoItems("A")),
        NoParams}

\* What the Json<JsonRpcRequest> extractor hands to handle_mcp.
RpcRequest(method, id, params) ==
  [extract |-> "Ok", method |-> method, id |-> id, params |-> params]
Rejection(why) ==
  [extract |-> "Err", method |-> Missing, id |-> Missing, params |-> NoParams,
   why |-> why]

\* Bodies of POST /mcp: every method and every tool call under one id, a known
\* method and the unknown ones under every id, and a tool call of each kind
\* without an id.
McpBodies ==
  {Rejection(w) : w \in {"invalid json", "no method", "method not a string"}}
  \cup {RpcRequest(m, "11", NoParams) : m \in KnownMethods \ {"tools/call"}}
  \cup {RpcRequest(m, i, NoParams) :
          m \in {"tools/list"} \cup OtherMethods, i \in JsonIds}
  \cup {RpcRequest("tools/call", "11", a) : a \in ToolParams}
  \cup {RpcRequest("tools/call", Missing, a) :
          a \in {Params(TOOL_NAME, TRUE, Payload(<<Apple2>>, "A")),
                 Params(CHECKOUT_TOOL_NAME, TRUE, PayloadNoItems("A")),
                 Params("unknown_tool", TRUE, PayloadNoItems(Missing)),
                 Params(TOOL_NAME, TRUE, PayloadNull)}}

\* The widget HTML load_widget_html() may find.
WidgetHtml == {"", "<html>cart</html>"}

\* ------------------------------------------------------------------------
\* Steps shared by the handlers
\* ------------------------------------------------------------------------

Answer(r, response) == <<[req |-> r, resp |-> response]>>

Ok200(body) == HttpResponse(StatusOk, body, <<>>)

\* A handler that answers and empties the store: what no handler does.
ReplyAndClear(p, r, response) ==
  /\ out' = Answer(r, response)
  /\ found' = <<>>
  /\ served' = served + 1
  /\ carts' = <<>>
  /\ UNCHANGED <<shardLock, shardOf, overflowChecks, pc, frame, issued,
                 history>>

\* A handler that answers after it made sure the cart its arguments name
\* exists: what no handler does for a call it rejects.
ReplyAndCreate(p, r, response) ==
  /\ out' = Answer(r, response)
  /\ found' = <<>>
  /\ served' = served + 1
  /\ carts' = IF /\ r.route = "POST /mcp"
                 /\ r.body.extract = "Ok"
                 /\ r.body.method = "tools/call"
                 /\ r.body.params.hasArguments
                 /\ r.body.params.arguments.cartId \in AllIds \ DOMAIN carts
              THEN Inserted(r.body.params.arguments.cartId, <<>>)
              ELSE carts
  /\ UNCHANGED <<shardLock, shardOf, overflowChecks, pc, frame, issued,
                 history>>

\* A handler that touches no shared state: the whole request in one step.
Reply(p, r, response) ==
  /\ out' = Answer(r, response)
  /\ found' = <<>>
  /\ served' = served + 1
  /\ UNCHANGED <<carts, shardLock, shardOf, overflowChecks, pc, frame, issued,
                 history>>

\* What a map operation finds under key c.
Found(c) ==
  <<[present |-> c \in DOMAIN carts,
     items |-> IF c \in DOMAIN carts THEN carts[c] ELSE <<>>]>>

Logged(c, kind) == [opLog EXCEPT ![c] = Append(@, kind)]

\* The exact sum sent per name, with the items of one more call.
RECURSIVE TallyWith(_, _)
TallyWith(t, items) ==
  IF items = <<>> THEN t
  ELSE LET i == Head(items)
           old == IF i.name \in DOMAIN t THEN t[i.name] ELSE NatZero
       IN TallyWith([n \in (DOMAIN t) \cup {i.name} |->
                       IF n = i.name THEN NatAdd(old, i.quantity) ELSE t[n]],
                    Tail(items))

\* state.carts.entry(cart_id).or_default(): takes the shard's write lock, which
\* the returned guard holds, and creates an empty cart if there is none.
carts_entry_or_default(p, f) ==
  /\ shardLock' = [shardLock EXCEPT ![f.shard] = p]
  /\ carts' = IF f.cart_id \in DOMAIN carts THEN carts
              ELSE Inserted(f.cart_id, <<>>)
  /\ pc' = [pc EXCEPT ![p] = "merge"]
  /\ frame' = [frame EXCEPT ![p] = <<f>>]
  /\ out' = <<>>
  /\ found' = Found(f.cart_id)
  /\ UNCHANGED history

\* The result of handle_add_to_cart_tool.
AddToCartResult(cart_id, current_items) ==
  [content |-> [text |-> "Cart {} now has {} item(s).",
                cartId |-> cart_id, count |-> Len(current_items)],
   structuredContent |-> [cartId |-> cart_id, items |-> current_items],
   meta |-> widget_meta(<<cart_id>>)]

\* A checkout result that still lists the cart's items and is not marked as a
\* checkout: what handle_checkout_tool does not return.
CheckoutResultWithItems(cart_id, text) ==
  [content |-> text,
   structuredContent |->
     [cartId |-> cart_id,
      items |-> IF cart_id \in DOMAIN carts THEN carts[cart_id] ELSE <<>>,
      checkout |-> FALSE],
   meta |-> widget_meta(<<cart_id>>)]

\* The results of handle_checkout_tool.
CheckoutResult(cart_id, text) ==
  [content |-> text,
   structuredContent |-> [cartId |-> cart_id, items |-> <<>>, checkout |-> TRUE],
   meta |-> widget_meta(<<cart_id>>)]
\* A text that reports a cart without items as no cart: what
\* handle_checkout_tool does not answer for an entry it removed.
CheckedOutOrEmptyText(items) ==
  IF items = <<>> THEN [text |-> "Cart is empty.", summary |-> <<>>]
  ELSE [text |-> "Checked out now: {}", summary |-> format_item_summary(items)]
CheckedOutText(items) ==
  [text |-> "Checked out now: {}", summary |-> format_item_summary(items)]
NothingCheckedOutText == [text |-> "Checked out now: {}", summary |-> <<>>]
CartIsEmptyText == [text |-> "Cart is empty.", summary |-> <<>>]

\* handle_checkout_tool from state.carts.remove(&cart_id) on.
checkout_tool_remove(p, f) ==
  /\ carts' = Removed(f.cart_id)
  /\ out' = Answer(f.req, Ok200(rpc_success(f.id,
              CheckoutResult(f.cart_id,
                IF f.cart_id \in DOMAIN carts
                THEN CheckedOutText(carts[f.cart_id])
                ELSE CartIsEmptyText))))
  /\ pc' = [pc EXCEPT ![p] = "idle"]
  /\ frame' = [frame EXCEPT ![p] = <<>>]
  /\ opLog' = Logged(f.cart_id, "checkout")
  /\ tally' = [tally EXCEPT ![f.cart_id] = <<>>]
  /\ found' = Found(f.cart_id)
  /\ UNCHANGED shardLock

SetCookie(f) == IF f.is_new_session THEN <<f.session_id>> ELSE <<>>

\* A sync that answers but writes to a store of its own, which the MCP tools
\* do not see: what sync_cart does not do.
sync_cart_private_store(p, f) ==
  /\ carts' = carts
  /\ out' = Answer(f.req,
              HttpResponse(StatusOk, SyncResponse("updated", f.cart_id), SetCookie(f)))
  /\ pc' = [pc EXCEPT ![p] = "idle"]
  /\ frame' = [frame EXCEPT ![p] = <<>>]
  /\ opLog' = Logged(f.cart_id, "sync")
  /\ tally' = [tally EXCEPT ![f.cart_id] = <<>>]
  /\ found' = Found(f.cart_id)
  /\ UNCHANGED shardLock

\* sync_cart from state.carts.insert(cart_id, items) on.
sync_cart_insert(p, f) ==
  /\ carts' = Inserted(f.cart_id, f.items)
  /\ out' = Answer(f.req,
              HttpResponse(StatusOk, SyncResponse("updated", f.cart_id), SetCookie(f)))
  /\ pc' = [pc EXCEPT ![p] = "idle"]
  /\ frame' = [frame EXCEPT ![p] = <<>>]
  /\ opLog' = Logged(f.cart_id, "sync")
  /\ tally' = [tally EXCEPT ![f.cart_id] = <<>>]
  /\ found' = Found(f.cart_id)
  /\ UNCHANGED shardLock

\* checkout (REST) from state.carts.remove(&cart_id) on; the summary of the
\* removed items goes to the log only.
checkout_remove(p, f) ==
  /\ carts' = Removed(f.cart_id)
  /\ out' = Answer(f.req,
              HttpResponse(StatusOk, SyncResponse("checked_out", f.cart_id), SetCookie(f)))
  /\ pc' = [pc EXCEPT ![p] = "idle"]
  /\ frame' = [frame EXCEPT ![p] = <<>>]
  /\ opLog' = Logged(f.cart_id, "checkout")
  /\ tally' = [tally EXCEPT ![f.cart_id] = <<>>]
  /\ found' = Found(f.cart_id)
  /\ UNCHANGED shardLock

\* The map operation of the handler whose locals are f.
MapStep(p, f) ==
  CASE f.handler = "add_to_cart" -> carts_entry_or_default(p, f)
    [] f.handler = "checkout_tool" -> checkout_tool_remove(p, f)
    [] f.handler = "sync_cart" -> sync_cart_insert(p, f)
    [] f.handler = "checkout" -> checkout_remove(p, f)

\* The worker waits for the shard's lock.
Park(p, f) ==
  /\ pc' = [pc EXCEPT ![p] = "blocked"]
  /\ frame' = [frame EXCEPT ![p] = <<f>>]
  /\ out' = <<>>
  /\ found' = <<>>
  /\ UNCHANGED <<carts, shardLock, history>>

\* A handler reaches its map operation, having drawn `uuids` fresh ids: the
\* key is hashed to its shard, whose lock is taken at once or waited for.
Start(p, f, uuids) ==
  /\ served' = served + 1
  /\ issued' = issued + uuids
  /\ UNCHANGED overflowChecks
  /\ \E s \in DetermineShard(f.cart_id) :
       /\ shardOf' = Hashed(f.cart_id, s)
       /\ IF ShardFree(s)
          THEN MapStep(p, [f EXCEPT !.shard = s])
          ELSE Park(p, [f EXCEPT !.shard = s])

\* ------------------------------------------------------------------------
\* MCP handlers (mcp/handlers.rs)
\* ------------------------------------------------------------------------

\* Worker p takes the next request: it is the first idle worker.
Idle(p) ==
  /\ served < MaxRequests
  /\ \E i \in 1..Len(ProcOrder) :
       /\ ProcOrder[i] = p
       /\ pc[p] = "idle"
       /\ \A j \in 1..(i - 1) : pc[ProcOrder[j]] # "idle"

EmptyObject == [kind |-> "object"]

handle_initialize ==
  [protocolVersion |-> PROTOCOL_VERSION,
   capabilities |-> [tools |-> [listChanged |-> TRUE],
                     resources |-> [listChanged |-> TRUE, subscribe |-> TRUE]],
   serverInfo |-> [name |-> SERVER_NAME, version |-> "0.1.0"]]

\* The two descriptors in the other order: what handle_tools_list does not
\* return.
handle_tools_list_reversed ==
  [tools |-> << [name |-> CHECKOUT_TOOL_NAME, title |-> "Checkout",
                 required |-> {}, meta |-> widget_meta(<<>>)],
                [name |-> TOOL_NAME, title |-> "Add items to cart",
                 required |-> {"items"}, meta |-> widget_meta(<<>>)] >>,
   meta |-> widget_meta(<<>>)]

handle_tools_list ==
  [tools |-> << [name |-> TOOL_NAME, title |-> "Add items to cart",
                 required |-> {"items"}, meta |-> widget_meta(<<>>)],
                [name |-> CHECKOUT_TOOL_NAME, title |-> "Checkout",
                 required |-> {}, meta |-> widget_meta(<<>>)] >>,
   meta |-> widget_meta(<<>>)]

handle_resources_list ==
  [resources |-> << [name |-> "Start shopping cart", uri |-> WIDGET_TEMPLATE_URI,
                     mimeType |-> WIDGET_MIME_TYPE, meta |-> widget_meta(<<>>)] >>,
   meta |-> widget_meta(<<>>)]

\* html is what load_widget_html().unwrap_or_default() returned.
handle_resources_read(html) ==
  [contents |-> << [uri |-> WIDGET_TEMPLATE_URI, mimeType |-> WIDGET_MIME_TYPE,
                    text |-> html, meta |-> widget_meta(<<>>)] >>,
   meta |-> widget_meta(<<>>)]

InvalidArguments == [text |-> "Invalid arguments: {}", name |-> ""]
UnknownTool(name) == [text |-> "Unknown tool: {}", name |-> name]

\* handle_add_to_cart_tool up to the entry() call on the map; an Err(msg) is
\* wrapped by handle_mcp into rpc_error(id, -32602, msg).
handle_add_to_cart_tool(p, r, id, args) ==
  IF ~AddToCartInputValid(args)
  THEN Reply(p, r, Ok200(rpc_error(id, InvalidParams, InvalidArguments)))
  ELSE LET input == DeserializeAddToCartInput(args)
           uuids == IF input.cart_id = Missing THEN 1 ELSE 0
       IN /\ CanIssue(uuids)
          /\ Start(p, [handler |-> "add_to_cart", req |-> r, id |-> id, shard |-> Missing,
                       cart_id |-> get_or_create_cart_id(input.cart_id),
                       items |-> input.items], uuids)

\* handle_add_to_cart_tool from update_cart_with_new_items on: the merge, the
\* snapshot and the result, then the guard is dropped.  A panic in the merge
\* unwinds through the guard and the request gets no response.
handle_add_to_cart_tool_merge(p) ==
  /\ pc[p] = "merge"
  /\ \E checks \in overflowChecks :
     LET f == frame[p][1]
         merged == update_cart_with_new_items(carts[f.cart_id], f.items, checks)
         overflowed == update_cart_with_new_items(carts[f.cart_id], f.items, TRUE).panicked
         current_items == merged.items
     IN /\ f.cart_id \in DOMAIN carts
        /\ overflowChecks' = IF overflowed THEN {checks} ELSE overflowChecks
        /\ carts' = [carts EXCEPT ![f.cart_id] = current_items]
        /\ out' = Answer(f.req,
                    IF merged.panicked THEN Aborted
                    ELSE Ok200(rpc_success(f.id, AddToCartResult(f.cart_id, current_items))))
        /\ found' = Found(f.cart_id)
        /\ opLog' = Logged(f.cart_id, "add")
        /\ tally' = [tally EXCEPT ![f.cart_id] = TallyWith(@, f.items)]
  /\ shardLock' = [shardLock EXCEPT ![frame[p][1].shard] = NoOwner]
  /\ pc' = [pc EXCEPT ![p] = "idle"]
  /\ frame' = [frame EXCEPT ![p] = <<>>]
  /\ UNCHANGED <<shardOf, issued, served>>

\* handle_checkout_tool up to the remove() call on the map.
handle_checkout_tool(p, r, id, args) ==
  IF ~CheckoutInputValid(args)
  THEN Reply(p, r, Ok200(rpc_error(id, InvalidParams, InvalidArguments)))
  ELSE LET input == DeserializeCheckoutInput(args)
           uuids == IF input.cart_id = Missing THEN 1 ELSE 0
       IN /\ CanIssue(uuids)
          /\ Start(p, [handler |-> "checkout_tool", req |-> r, id |-> id, shard |-> Missing,
                       cart_id |-> get_or_create_cart_id(input.cart_id)], uuids)

handle_tool_call(p, r, id, name, args) ==
  CASE name = TOOL_NAME -> handle_add_to_cart_tool(p, r, id, args)
    [] name = CHECKOUT_TOOL_NAME -> handle_checkout_tool(p, r, id, args)
    [] OTHER -> Reply(p, r, Ok200(rpc_error(id, InvalidParams, UnknownTool(name))))

\* The method table of handle_mcp.
Dispatch(p, r, id, method_name, params) ==
  CASE method_name = "initialize" ->
         Reply(p, r, Ok200(rpc_success(id, handle_initialize)))
    [] method_name = "notifications/initialized" ->
         Reply(p, r, Ok200(rpc_success(id, EmptyObject)))
    [] method_name = "tools/list" ->
         Reply(p, r, Ok200(rpc_success(id, handle_tools_list)))
    [] method_name = "resources/list" ->
         Reply(p, r, Ok200(rpc_success(id, handle_resources_list)))
    [] method_name = "resources/read" ->
         \E html \in WidgetHtml :
           Reply(p, r, Ok200(rpc_success(id, handle_resources_read(html))))
    [] method_name = "tools/call" ->
         LET tool_name == IF params.name \in {Missing, BadType} THEN "" ELSE params.name
             args == IF params.hasArguments THEN params.arguments ELSE PayloadNull
         IN handle_tool_call(p, r, id, tool_name, args)
    [] method_name = "ping" ->
         Reply(p, r, Ok200(rpc_success(id, EmptyObject)))
    [] OTHER ->
         Reply(p, r, Ok200(rpc_error(id, MethodNotFound, "Method not found")))

\* POST /mcp
handle_mcp(p) ==
  /\ Idle(p)
  /\ \E body \in McpBodies :
       LET r == [route |-> "POST /mcp", body |-> body]
       IN IF body.extract = "Err"
          THEN Reply(p, r, HttpResponse(StatusBadRequest,
                             rpc_error(JsonNull, ParseError, "Parse error"), <<>>))
          ELSE Dispatch(p, r, IF body.id = Missing THEN JsonNull ELSE body.id,
                        body.method, body.params)

\* GET /mcp
handle_mcp_sse(p) ==
  /\ Idle(p)
  /\ Reply(p, [route |-> "GET /mcp"],
           Ok200([kind |-> "sse", text |-> "event: endpoint\ndata: /mcp\n\n"]))

\* ------------------------------------------------------------------------
\* REST handlers (cart/handlers.rs)
\* ------------------------------------------------------------------------

\* What axum's Json extractor answers for a body the input type rejects.
JsonRejection == HttpResponse(StatusUnprocessable, [kind |-> "rejection"], <<>>)

\* POST /sync_cart
sync_cart(p) ==
  /\ Idle(p)
  /\ \E hb \in SyncRequests :
       LET headers == hb[1]
           body == hb[2]
           r == [route |-> "POST /sync_cart", headers |-> headers, body |-> body]
       IN IF ~AddToCartInputValid(body)
          THEN Reply(p, r, JsonRejection)
          ELSE LET payload == DeserializeAddToCartInput(body)
                   session == resolve_session_id(headers, Fresh(1))
                   uuids == IF session.is_new THEN 1 ELSE 0
               IN /\ CanIssue(uuids)
                  /\ Start(p, [handler |-> "sync_cart", req |-> r, shard |-> Missing,
                               cart_id |-> get_or_default_cart_id(payload.cart_id,
                                                                  session.session_id),
                               items |-> payload.items,
                               session_id |-> session.session_id,
                               is_new_session |-> session.is_new], uuids)

\* POST /checkout
checkout(p) ==
  /\ Idle(p)
  /\ \E hb \in CheckoutRequests :
       LET headers == hb[1]
           body == hb[2]
           r == [route |-> "POST /checkout", headers |-> headers, body |-> body]
       IN IF ~CheckoutInputValid(body)
          THEN Reply(p, r, JsonRejection)
          ELSE LET payload == DeserializeCheckoutInput(body)
                   session == resolve_session_id(headers, Fresh(1))
                   uuids == IF session.is_new THEN 1 ELSE 0
               IN /\ CanIssue(uuids)
                  /\ Start(p, [handler |-> "checkout", req |-> r, shard |-> Missing,
                               cart_id |-> get_or_default_cart_id(payload.cart_id,
                                                                  session.session_id),
                               session_id |-> session.session_id,
                               is_new_session |-> session.is_new], uuids)

\* A worker that waited for a shard's lock gets it and goes on.
acquire_shard_lock(p) ==
  /\ pc[p] = "blocked"
  /\ ShardFree(frame[p][1].shard)
  /\ MapStep(p, frame[p][1])
  /\ UNCHANGED <<shardOf, overflowChecks, issued, served>>

Next ==
  \E p \in Procs :
    \/ handle_mcp(p)
    \/ handle_mcp_sse(p)
    \/ sync_cart(p)
    \/ checkout(p)
    \/ handle_add_to_cart_tool_merge(p)
    \/ acquire_shard_lock(p)

Spec == Init /\ [][Next]_vars

\* A handler that holds or awaits a shard's lock runs on: the runtime keeps
\* polling a ready task, and a waiter gets a lock that stays free.
Fairness ==
  \A p \in Procs :
    /\ WF_vars(handle_add_to_cart_tool_merge(p))
    /\ WF_vars(acquire_shard_lock(p))

LiveSpec == Spec /\ Fairness

\* ------------------------------------------------------------------------
\* Properties
\* ------------------------------------------------------------------------

NamesOf(items) == {items[i].name : i \in DOMAIN items}
NamesUnique(items) ==
  \A i, j \in DOMAIN items : items[i].name = items[j].name => i = j

\* The map operations applied to cart c since it was last absent.
SinceAbsent(c) ==
  LET log == opLog[c]
      checkouts == {i \in DOMAIN log : log[i] = "checkout"}
      last == IF checkouts = {} THEN 0
              ELSE CHOOSE i \in checkouts : \A j \in checkouts : j <= i
  IN SubSeq(log, last + 1, Len(log))

\* Cart c has seen add_to_cart merges, and nothing else, since it was absent.
AddsOnly(c) ==
  /\ SinceAbsent(c) # <<>>
  /\ \A i \in DOMAIN SinceAbsent(c) : SinceAbsent(c)[i] = "add"

\* C1: after add_to_cart calls alone on a cart that started absent, the stored
\* cart holds each distinct name sent exactly once, and each item's quantity
\* is the sum of the quantities sent under its name (a missing one counts 1).
C1_AddSumsQuantities ==
  \A c \in AllIds :
    AddsOnly(c) =>
      /\ c \in DOMAIN carts
      /\ NamesUnique(carts[c])
      /\ NamesOf(carts[c]) = DOMAIN tally[c]
      /\ \A i \in DOMAIN carts[c] :
           NatOfU32(carts[c][i].quantity) = tally[c][carts[c][i].name]

\* The names of seq `names` that are not in `seen`, each once, in the order
\* of their first occurrence.
RECURSIVE FirstSeen(_, _)
FirstSeen(names, seen) ==
  IF names = <<>> THEN <<>>
  ELSE IF Head(names) \in seen THEN FirstSeen(Tail(names), seen)
  ELSE <<Head(names)>> \o FirstSeen(Tail(names), seen \cup {Head(names)})

\* The items a tools/call request sends, as (name, quantity) pairs.
SentByToolCall(req) ==
  LET items == req.body.params.arguments.items
  IN [i \in DOMAIN items |->
        <<items[i].name,
          IF items[i].quantity.k = "absent" THEN U32(1) ELSE items[i].quantity.v>>]

NameAndQuantity(items) ==
  [i \in DOMAIN items |-> <<items[i].name, items[i].quantity>>]

\* Worker p completes the merge of an add_to_cart call in this step.
MergeStep(p) == pc[p] = "merge" /\ pc'[p] = "idle"

\* C2: a merge keeps first-seen order: the names already in the cart stay at
\* their positions, the new names of the call follow them in input order, and
\* [Apple 3, Banana 2] merged with [Apple 2] is [Apple 5, Banana 2].
C2_MergeKeepsFirstSeenOrder ==
  [][\A p \in Procs :
       MergeStep(p) =>
         LET c == frame[p][1].cart_id
             old == carts[c]
             new == carts'[c]
             sent == SentByToolCall(frame[p][1].req)
         IN /\ Len(new) >= Len(old)
            /\ \A i \in DOMAIN old : new[i].name = old[i].name
            /\ [i \in 1..(Len(new) - Len(old)) |-> new[Len(old) + i].name]
                 = FirstSeen([i \in DOMAIN sent |-> sent[i][1]], NamesOf(old))
            /\ ( /\ NameAndQuantity(old) = << <<"Apple", U32(3)>>, <<"Banana", U32(2)>> >>
                 /\ sent = << <<"Apple", U32(2)>> >> )
               => NameAndQuantity(new) = << <<"Apple", U32(5)>>, <<"Banana", U32(2)>> >>
    ]_vars

\* The last step answered a request on `route` with a response of `kind`.
Answered(route, kind) ==
  /\ out # <<>>
  /\ out[1].req.route = route
  /\ out[1].resp.body.kind = kind

\* The item list a JSON body carries, as it is to be stored.
ItemsOf(body) ==
  [i \in DOMAIN body.items |->
     [name |-> body.items[i].name,
      quantity |-> IF body.items[i].quantity.k = "absent" THEN U32(1)
                   ELSE body.items[i].quantity.v,
      extra |-> body.items[i].extra]]

\* C3: when POST /sync_cart has answered for cart id X, the cart stored under
\* X is exactly the item list of the request, X is the request's cartId if
\* it has one, and the response is 200 {status: "updated", cartId: X}.
C3_SyncReplacesCart ==
  Answered("POST /sync_cart", "rest") =>
    LET req == out[1].req
        resp == out[1].resp
        X == resp.body.cartId
    IN /\ resp.status = 200
       /\ resp.body.status = "updated"
       /\ req.body.cartId # Missing => X = req.body.cartId
       /\ X \in DOMAIN carts
       /\ carts[X] = ItemsOf(req.body)

\* A sync has just replaced a cart that held other items, left by a sync or
\* by a merge.
C3_Witness ==
  /\ Answered("POST /sync_cart", "rest")
  /\ found[1].present
  /\ found[1].items # <<>>
  /\ found[1].items # carts[out[1].resp.body.cartId]
  /\ carts[out[1].resp.body.cartId] # <<>>
  /\ Len(opLog[out[1].resp.body.cartId]) >= 2

\* The cart id a checkout response names.
CheckedOutId(resp) ==
  IF resp.body.kind = "rest" THEN resp.body.cartId
  ELSE resp.body.result.structuredContent.cartId

\* The last step answered a checkout, by the MCP tool or by POST /checkout.
AnsweredCheckoutTool ==
  /\ Answered("POST /mcp", "result")
  /\ out[1].req.body.method = "tools/call"
  /\ out[1].req.body.params.name = "checkout"
AnsweredCheckout ==
  AnsweredCheckoutTool \/ Answered("POST /checkout", "rest")

\* The map operation applied to cart c before the last one.
PreviousOp(c) ==
  IF Len(opLog[c]) >= 2 THEN opLog[c][Len(opLog[c]) - 1] ELSE "none"

\* C4: when a checkout of cart id X has answered, by the MCP tool or by
\* POST /checkout, the store has no entry for X; and an MCP checkout of X that
\* comes right after a checkout of X, with no write to X in between, reports
\* "Cart is empty.".
C4_CheckoutRemovesCart ==
  AnsweredCheckout =>
    LET X == CheckedOutId(out[1].resp)
    IN /\ X \notin DOMAIN carts
       /\ (AnsweredCheckoutTool /\ PreviousOp(X) = "checkout")
            => out[1].resp.body.result.content.text = "Cart is empty."

\* An MCP checkout of a cart that was written, then checked out, has said
\* that the cart is empty.
C4_Witness ==
  /\ AnsweredCheckoutTool
  /\ out[1].resp.body.result.content.text = "Cart is empty."
  /\ \E X \in AllIds :
       /\ X = CheckedOutId(out[1].resp)
       /\ Len(opLog[X]) = 3
       /\ opLog[X][1] \in {"add", "sync"}
       /\ opLog[X][2] = "checkout"

\* The request is a tools/call of the checkout tool with an object as
\* arguments.
IsCheckoutCall(req) ==
  /\ req.route = "POST /mcp"
  /\ req.body.extract = "Ok"
  /\ req.body.method = "tools/call"
  /\ req.body.params.name = "checkout"
  /\ req.body.params.hasArguments
  /\ req.body.params.arguments.json = "object"

\* No add_to_cart and no sync was ever applied to cart c.
NeverWritten(c) == \A i \in DOMAIN opLog[c] : opLog[c][i] = "checkout"

\* C5: a step that answers an MCP checkout of a cart id that was never written
\* answers 200 with a result, not an error, whose text is "Cart is empty." and
\* whose structuredContent.items is empty, and it leaves the store as it was.
C5_CheckoutOfUnknownCart ==
  [][(/\ out' # <<>>
      /\ IsCheckoutCall(out'[1].req)
      /\ out'[1].req.body.params.arguments.cartId \in AllIds
      /\ NeverWritten(out'[1].req.body.params.arguments.cartId))
     => /\ out'[1].resp.status = 200
        /\ out'[1].resp.body.kind = "result"
        /\ out'[1].resp.body.result.content.text = "Cart is empty."
        /\ out'[1].resp.body.result.structuredContent.items = <<>>
        /\ carts' = carts
    ]_vars

\* An MCP checkout of a cart id nobody wrote has answered, with other carts in
\* the store.
C5_Witness ==
  /\ AnsweredCheckoutTool
  /\ opLog[CheckedOutId(out[1].resp)] = <<"checkout">>
  /\ CheckedOutId(out[1].resp) \in ClientIds
  /\ out[1].resp.body.result.structuredContent.items = <<>>
  /\ carts # <<>>

\* The cart stored under c: <<>> if there is none, else <<its items>>.
CartAt(c) == IF c \in DOMAIN carts THEN <<carts[c]>> ELSE <<>>

\* The cartId member and the item names a request carries.
GivenCartId(req) ==
  IF req.route = "GET /mcp" THEN Missing
  ELSE IF req.route = "POST /mcp" THEN req.body.params.arguments.cartId
  ELSE req.body.cartId
GivenNames(req) ==
  IF req.route = "GET /mcp" THEN {}
  ELSE IF req.route = "POST /mcp" THEN NamesOf(req.body.params.arguments.items)
  ELSE NamesOf(req.body.items)

\* The ids a request without cartId can stand for: one the server makes up or,
\* on the REST routes, the value of a cookie.
ImpliedIds(req) ==
  UuidIds \cup
  (IF req.route \in {"POST /sync_cart", "POST /checkout"}
   THEN {req.headers.parts[i].rest : i \in DOMAIN req.headers.parts}
   ELSE {})

\* Request req is addressed to cart id c.
Addresses(req, c) ==
  IF GivenCartId(req) = Missing THEN c \in ImpliedIds(req)
  ELSE GivenCartId(req) = c

\* The requests a step acts for: the one it answers and the one whose
\* add_to_cart it begins.
ActingRequests ==
  {out'[i].req : i \in DOMAIN out'} \cup
  {frame'[p][1].req : p \in {q \in Procs : pc[q] # "merge" /\ pc'[q] = "merge"}}

\* C6: carts do not contaminate each other: a step changes the cart of id c
\* only for a request addressed to c, and every name the cart then holds was
\* in it before or is sent by that request.
C6_CartsAreIsolated ==
  [][\A c \in AllIds :
       CartAt(c)' # CartAt(c) =>
         \E req \in ActingRequests :
           /\ Addresses(req, c)
           /\ \A i \in DOMAIN CartAt(c)' :
                NamesOf(CartAt(c)'[i]) \subseteq
                  GivenNames(req) \cup
                  UNION {NamesOf(CartAt(c)[j]) : j \in DOMAIN CartAt(c)}
    ]_vars

\* Cart B has been replaced while an add_to_cart on cart A is between its
\* get-or-create and its merge, and the two carts differ.
C6_Witness ==
  /\ \E p \in Procs : pc[p] = "merge" /\ frame[p][1].cart_id = "A"
  /\ Answered("POST /sync_cart", "rest")
  /\ out[1].resp.body.cartId = "B"
  /\ "A" \in DOMAIN carts /\ carts["A"] # <<>>
  /\ "B" \in DOMAIN carts /\ carts["B"] # <<>>
  /\ NamesOf(carts["A"]) # NamesOf(carts["B"])

\* C7: add_to_cart calls on one cart id serialize: while a call is between its
\* get-or-create and its merge the cart exists, no other step changes it and
\* no other call on that id is in the same stage; the merge applies the call's
\* items to the cart as it then is, and the items returned are the cart.
C7_AddToCartSerializes ==
  [][\A p \in Procs :
       /\ pc'[p] = "merge" =>
            /\ frame'[p][1].cart_id \in DOMAIN carts'
            /\ \A q \in Procs \ {p} :
                 pc'[q] = "merge" => frame'[q][1].cart_id # frame'[p][1].cart_id
       /\ (pc[p] = "merge" /\ pc'[p] = "merge") =>
            CartAt(frame[p][1].cart_id)' = CartAt(frame[p][1].cart_id)
       /\ MergeStep(p) =>
            LET c == frame[p][1].cart_id
                items == ItemsOf(frame[p][1].req.body.params.arguments)
            IN /\ c \in DOMAIN carts'
               /\ \E checks \in BOOLEAN :
                    carts'[c] = update_cart_with_new_items(carts[c], items, checks).items
               /\ out'[1].resp.body.kind = "result" =>
                    out'[1].resp.body.result.structuredContent.items = carts'[c]
    ]_vars

\* Two add_to_cart calls on one cart id overlap: the second, taken by the
\* second worker while the first was busy, has the cart to itself now that
\* the first has merged its items.
C7_Witness ==
  /\ served = 2
  /\ pc["w1"] = "idle"
  /\ pc["w2"] = "merge"
  /\ frame["w2"][1].cart_id = "A"
  /\ frame["w2"][1].items # <<>>
  /\ opLog["A"] = <<"add">>
  /\ found[1].present
  /\ found[1].items # <<>>

C9_NamesAreUnique ==
  \A c \in DOMAIN carts : NamesUnique(carts[c])

\* C10: a step that answers a well-formed JSON-RPC request whose method is
\* none of the seven the server knows answers 200 with error -32601 "Method
\* not found" and the request's id (null if it has none), and leaves the
\* store as it was.
C10_UnknownMethod ==
  [][(/\ out' # <<>>
      /\ out'[1].req.route = "POST /mcp"
      /\ out'[1].req.body.extract = "Ok"
      /\ out'[1].req.body.method \notin
           {"initialize", "notifications/initialized", "tools/list",
            "resources/list", "resources/read", "tools/call", "ping"})
     => /\ out'[1].resp.status = 200
        /\ out'[1].resp.body.kind = "error"
        /\ out'[1].resp.body.error.code = -32601
        /\ out'[1].resp.body.error.message = "Method not found"
        /\ out'[1].resp.body.id =
             (IF out'[1].req.body.id = Missing THEN "null" ELSE out'[1].req.body.id)
        /\ carts' = carts
    ]_vars

\* An unknown method with an id has been answered while the store holds a
\* cart.
C10_Witness ==
  /\ Answered("POST /mcp", "error")
  /\ out[1].req.body.extract = "Ok"
  /\ out[1].req.body.method = "unknown/method"
  /\ out[1].req.body.id = "11"
  /\ out[1].resp.body.id = "11"
  /\ \E c \in DOMAIN carts : carts[c] # <<>>

\* C11: a step that answers a POST /mcp whose body the extractor rejects (not
\* JSON, no method, a method that is no string) answers 400 with error -32700
\* "Parse error" and id null, starts no handler and leaves the store as it
\* was; an error envelope for a parsed request comes with 200.
C11_ParseErrorIs400 ==
  [][(out' # <<>> /\ out'[1].req.route = "POST /mcp") =>
       /\ out'[1].req.body.extract = "Err" =>
            /\ out'[1].resp.status = 400
            /\ out'[1].resp.body.kind = "error"
            /\ out'[1].resp.body.error.code = -32700
            /\ out'[1].resp.body.error.message = "Parse error"
            /\ out'[1].resp.body.id = "null"
            /\ carts' = carts
            /\ pc' = pc
            /\ opLog' = opLog
            /\ issued' = issued
       /\ (out'[1].req.body.extract = "Ok" /\ out'[1].resp.body.kind = "error") =>
            /\ out'[1].resp.status = 200
            /\ out'[1].resp.body.error.code \in {-32601, -32602}
    ]_vars

\* A body whose method is not a string has been answered with the parse
\* error while the store holds a cart.
C11_Witness ==
  /\ Answered("POST /mcp", "error")
  /\ out[1].req.body.extract = "Err"
  /\ out[1].req.body.why = "method not a string"
  /\ out[1].resp.status = 400
  /\ \E c \in DOMAIN carts : carts[c] # <<>>

\* The id a response has to carry for request req.
EchoedId(req) == IF req.body.id = Missing THEN "null" ELSE req.body.id

\* What the method table answers for a method that takes no part of the
\* request into account.
StatelessResults(method) ==
  CASE method = "initialize" -> {handle_initialize}
    [] method = "notifications/initialized" -> {EmptyObject}
    [] method = "tools/list" -> {handle_tools_list}
    [] method = "resources/list" -> {handle_resources_list}
    [] method = "resources/read" -> {handle_resources_read(h) : h \in WidgetHtml}
    [] method = "ping" -> {EmptyObject}
    [] OTHER -> {}

\* C12: every response to a parsed JSON-RPC request carries the request's id,
\* or null if it has none; and whatever the id, the method alone picks the
\* handler: the seven methods answer as the method table says, any other
\* method is not found, and only tools/call touches the store, in one cart.
C12_IdIsEchoed ==
  [][(/\ out' # <<>>
      /\ out'[1].req.route = "POST /mcp"
      /\ out'[1].req.body.extract = "Ok"
      /\ out'[1].resp.body.kind \in {"result", "error"})
     => LET req == out'[1].req
            body == out'[1].resp.body
        IN /\ body.id = EchoedId(req)
           /\ req.body.method \in
                {"initialize", "notifications/initialized", "tools/list",
                 "resources/list", "resources/read", "ping"} =>
                /\ body.kind = "result"
                /\ body.result \in StatelessResults(req.body.method)
                /\ carts' = carts
           /\ req.body.method \notin
                {"initialize", "notifications/initialized", "tools/list",
                 "resources/list", "resources/read", "ping", "tools/call"} =>
                /\ body.kind = "error"
                /\ carts' = carts
           /\ req.body.method = "tools/call" =>
                \/ body.kind = "error" /\ carts' = carts
                \/ /\ body.kind = "result"
                   /\ \A c \in AllIds \ {body.result.structuredContent.cartId} :
                        CartAt(c)' = CartAt(c)
    ]_vars

\* An add_to_cart call without an id has been answered with id null, the
\* cart written as for any other id.
C12_Witness ==
  /\ Answered("POST /mcp", "result")
  /\ out[1].req.body.method = "tools/call"
  /\ out[1].req.body.params.name = "add_to_cart"
  /\ out[1].req.body.id = Missing
  /\ out[1].resp.body.id = "null"
  /\ "A" \in DOMAIN carts
  /\ carts["A"] = <<CartItem("Apple", U32(2), NoExtra)>>

\* The tool name and the arguments handle_mcp reads from a tools/call request.
ToolNameOf(req) ==
  IF req.body.params.name \in {Missing, BadType} THEN "" ELSE req.body.params.name
ToolArgsOf(req) ==
  IF req.body.params.hasArguments THEN req.body.params.arguments ELSE PayloadNull

\* The arguments of the request do not deserialize into the input of the
\* tool it names.
ArgumentsRejected(req) ==
  \/ ToolNameOf(req) = "add_to_cart" /\ ~AddToCartInputValid(ToolArgsOf(req))
  \/ ToolNameOf(req) = "checkout" /\ ~CheckoutInputValid(ToolArgsOf(req))

\* C13: a step that ends a tools/call answers 200 with error -32602 "Unknown
\* tool: <name>" if the name is neither add_to_cart nor checkout (a missing
\* name counts as ""), 200 with error -32602 "Invalid arguments..." if the
\* arguments do not deserialize, and a success envelope in every other case.
C13_ToolCallErrors ==
  [][(/\ out' # <<>>
      /\ out'[1].req.route = "POST /mcp"
      /\ out'[1].req.body.extract = "Ok"
      /\ out'[1].req.body.method = "tools/call")
     => LET req == out'[1].req
            resp == out'[1].resp
        IN IF ToolNameOf(req) \notin {"add_to_cart", "checkout"}
           THEN /\ resp.status = 200
                /\ resp.body.kind = "error"
                /\ resp.body.error.code = -32602
                /\ resp.body.error.message =
                     [text |-> "Unknown tool: {}", name |-> ToolNameOf(req)]
           ELSE IF ArgumentsRejected(req)
           THEN /\ resp.status = 200
                /\ resp.body.kind = "error"
                /\ resp.body.error.code = -32602
                /\ resp.body.error.message.text = "Invalid arguments: {}"
           ELSE /\ resp.status = 200
                /\ resp.body.kind = "result"
    ]_vars

\* C14: a step that ends an add_to_cart call one of whose items has no name
\* or the empty name answers with error -32602 and stores nothing.
C14_EmptyNameIsRejected ==
  [][(/\ out' # <<>>
      /\ out'[1].req.route = "POST /mcp"
      /\ out'[1].req.body.extract = "Ok"
      /\ out'[1].req.body.method = "tools/call"
      /\ ToolNameOf(out'[1].req) = "add_to_cart"
      /\ \E i \in DOMAIN ToolArgsOf(out'[1].req).items :
           ToolArgsOf(out'[1].req).items[i].name \in {Missing, ""})
     => /\ out'[1].resp.body.kind = "error"
        /\ out'[1].resp.body.error.code = -32602
        /\ \A c \in DOMAIN carts' : "" \notin NamesOf(carts'[c])
    ]_vars

\* The step ends a tools/call of the named tool with a success envelope.
ToolSucceeds(tool) ==
  /\ out' # <<>>
  /\ out'[1].req.route = "POST /mcp"
  /\ out'[1].req.body.extract = "Ok"
  /\ out'[1].req.body.method = "tools/call"
  /\ ToolNameOf(out'[1].req) = tool
  /\ out'[1].resp.body.kind = "result"

\* The cart id a successful tool call resolved its cartId argument to is the
\* given one, or an id the server has issued when none was given.
ResolvedFrom(given, cart_id) ==
  IF given = Missing THEN cart_id \in IssuedIds' ELSE cart_id = given

\* C15: a step that ends an MCP checkout with a success envelope returns
\* structuredContent {cartId: the resolved id, items: [], checkout: true}, and
\* after the step the store has no entry for that id.
C15_CheckoutResultShape ==
  [][ToolSucceeds("checkout") =>
       LET sc == out'[1].resp.body.result.structuredContent
       IN /\ DOMAIN sc = {"cartId", "items", "checkout"}
          /\ ResolvedFrom(ToolArgsOf(out'[1].req).cartId, sc.cartId)
          /\ sc.items = <<>>
          /\ sc.checkout = TRUE
          /\ sc.cartId \notin DOMAIN carts'
    ]_vars

\* An MCP checkout of cart A, which held items, has answered.
C15_Witness ==
  /\ AnsweredCheckoutTool
  /\ found # <<>> /\ found[1].present /\ found[1].items # <<>>
  /\ out[1].req.body.params.arguments.cartId = "A"
  /\ out[1].resp.body.result.structuredContent =
       [cartId |-> "A", items |-> <<>>, checkout |-> TRUE]
  /\ "A" \notin DOMAIN carts

\* C16: a step that ends an MCP checkout called without cartId returns an id
\* of the server's own making under which nothing was ever stored, reports
\* "Cart is empty.", and leaves the store as it was.
C16_CheckoutWithoutCartId ==
  [][(ToolSucceeds("checkout") /\ ToolArgsOf(out'[1].req).cartId = Missing) =>
       LET result == out'[1].resp.body.result
           X == result.structuredContent.cartId
       IN /\ X \in UuidIds
          /\ X \notin DOMAIN carts
          /\ opLog[X] = <<>>
          /\ result.content.text = "Cart is empty."
          /\ carts' = carts
    ]_vars

\* An MCP checkout without cartId has answered while another cart holds items.
C16_Witness ==
  /\ AnsweredCheckoutTool
  /\ out[1].req.body.params.hasArguments
  /\ out[1].req.body.params.arguments.cartId = Missing
  /\ out[1].resp.body.result.structuredContent.cartId \in UuidIds
  /\ out[1].resp.body.result.content.text = "Cart is empty."
  /\ \E c \in DOMAIN carts : carts[c] # <<>>

\* C17: a step that ends a POST /checkout whose body was accepted answers 200
\* with exactly {status: "checked_out", cartId: X}, X being the cartId of the
\* body or else the id of the session, whether or not the store had an entry
\* for X; after the step the store has no entry for X and every other cart is
\* as it was; the body has no member for the removed items.
C17_RestCheckout ==
  [][(/\ out' # <<>>
      /\ out'[1].req.route = "POST /checkout"
      /\ CheckoutInputValid(out'[1].req.body))
     => LET req == out'[1].req
            resp == out'[1].resp
            X == resp.body.cartId
        IN /\ resp.status = 200
           /\ resp.body = [kind |-> "rest", status |-> "checked_out", cartId |-> X]
           /\ IF req.body.cartId # Missing THEN X = req.body.cartId
              ELSE /\ X \in ImpliedIds(req)
                   /\ X \in UuidIds \ KnownIds => resp.set_cookie = <<X>>
           /\ X \notin DOMAIN carts'
           /\ \A c \in AllIds \ {X} : CartAt(c)' = CartAt(c)
    ]_vars

\* POST /checkout of a cart that held items has answered, and the store
\* still holds another cart with items.
C17_Witness ==
  /\ Answered("POST /checkout", "rest")
  /\ out[1].resp.body.status = "checked_out"
  /\ found # <<>> /\ found[1].present /\ found[1].items # <<>>
  /\ out[1].resp.body.cartId \notin DOMAIN carts
  /\ \E c \in DOMAIN carts : carts[c] # <<>>

\* POST /checkout of an id the store has no entry for has answered.
C17_WitnessNoCart ==
  /\ Answered("POST /checkout", "rest")
  /\ out[1].resp.body.status = "checked_out"
  /\ found # <<>> /\ ~found[1].present
  /\ carts # <<>>

\* A successful add_to_cart answers with the stored list: its text counts the
\* entries of the cart as the step leaves it, its structuredContent is
\* {cartId, items} with that list, and a cartId that was given is returned.
AddToCartResultIsStoredCart ==
  [][ToolSucceeds("add_to_cart") =>
       LET result == out'[1].resp.body.result
           X == result.structuredContent.cartId
       IN /\ ResolvedFrom(ToolArgsOf(out'[1].req).cartId, X)
          /\ X \in DOMAIN carts'
          /\ result.structuredContent = [cartId |-> X, items |-> carts'[X]]
          /\ result.content = [text |-> "Cart {} now has {} item(s).",
                               cartId |-> X, count |-> Len(carts'[X])]
    ]_vars

\* C18: a step that ends an add_to_cart with a success envelope returns the
\* text "Cart <id> now has <N> item(s)." with N the number of distinct items
\* of the cart after the merge, and structuredContent {cartId, items} whose
\* items are the cart as stored after the step; a cartId that was given is the
\* cartId returned.
C18_AddToCartResult ==
  [][ToolSucceeds("add_to_cart") =>
       LET result == out'[1].resp.body.result
           X == result.structuredContent.cartId
       IN /\ ResolvedFrom(ToolArgsOf(out'[1].req).cartId, X)
          /\ X \in DOMAIN carts'
          /\ result.structuredContent = [cartId |-> X, items |-> carts'[X]]
          /\ result.content = [text |-> "Cart {} now has {} item(s).",
                               cartId |-> X,
                               count |-> Cardinality(NamesOf(carts'[X]))]
    ]_vars

\* C19: a merge by add_to_cart leaves the name, the position and the extra
\* fields of every item the cart already held as they were, whatever extra
\* fields the matching incoming items carry, and an item it appends has the
\* extra fields of the first incoming item of that name.
C19_ExtraIsFixedAtInsert ==
  [][\A p \in Procs :
       MergeStep(p) =>
         LET c == frame[p][1].cart_id
             old == carts[c]
             new == carts'[c]
             sent == frame[p][1].items
         IN /\ Len(new) >= Len(old)
            /\ \A i \in 1..Len(old) :
                 /\ new[i].name = old[i].name
                 /\ new[i].extra = old[i].extra
            /\ \A j \in (Len(old) + 1)..Len(new) :
                 \E k \in DOMAIN sent :
                   /\ sent[k].name = new[j].name
                   /\ \A h \in 1..(k - 1) : sent[h].name # new[j].name
                   /\ new[j].extra = sent[k].extra
    ]_vars

\* An add_to_cart has answered whose incoming item matched a stored item with
\* other extra fields: the stored item has a new quantity and its old extra.
C19_Witness ==
  /\ Answered("POST /mcp", "result")
  /\ out[1].req.body.method = "tools/call"
  /\ out[1].req.body.params.name = "add_to_cart"
  /\ found # <<>> /\ found[1].present
  /\ LET c == out[1].resp.body.result.structuredContent.cartId
         sent == out[1].req.body.params.arguments.items
     IN /\ c \in DOMAIN carts
        /\ \E i \in DOMAIN found[1].items, k \in DOMAIN sent :
             /\ sent[k].name = found[1].items[i].name
             /\ sent[k].extra # found[1].items[i].extra
             /\ found[1].items[i].extra # {}
             /\ carts[c][i].extra = found[1].items[i].extra
             /\ carts[c][i].quantity # found[1].items[i].quantity

\* The last step answered a tools/list request.
AnsweredToolsList ==
  /\ out # <<>>
  /\ out[1].req.route = "POST /mcp"
  /\ out[1].req.body.extract = "Ok"
  /\ out[1].req.body.method = "tools/list"

\* C20: in every reachable state, whatever the store holds and whatever was
\* served before, the answer to a tools/list request is a success envelope
\* with exactly two tool descriptors, add_to_cart first and checkout second.
C20_ToolsListIsFixed ==
  AnsweredToolsList =>
    /\ out[1].resp.status = 200
    /\ out[1].resp.body.kind = "result"
    /\ LET tools == out[1].resp.body.result.tools
       IN /\ Len(tools) = 2
          /\ tools[1].name = "add_to_cart"
          /\ tools[2].name = "checkout"

\* tools/list has answered as the last of the requests, after a checkout, with
\* items in the store.
C20_Witness ==
  /\ AnsweredToolsList
  /\ served = MaxRequests
  /\ \E c \in DOMAIN carts : carts[c] # <<>>
  /\ \E c \in AllIds : opLog[c] # <<>> /\ opLog[c][Len(opLog[c])] = "checkout"

\* The last map operation applied to cart c.
LastOp(c) == IF opLog[c] # <<>> THEN opLog[c][Len(opLog[c])] ELSE "none"

\* C21: both interfaces work on one store.  A merge by add_to_cart into a
\* cart last written by POST /sync_cart keeps every synced item in place, and
\* on synced [Apple 2] the items [Apple 3, Banana 1] give Apple 5 and
\* Banana 1; an MCP checkout of a cart last written by a sync reports the
\* synced items and removes the cart; a POST /checkout of a cart last written
\* by add_to_cart removes it.
C21_OneStoreForBothInterfaces ==
  [][/\ \A p \in Procs :
          (MergeStep(p) /\ LastOp(frame[p][1].cart_id) = "sync") =>
            LET c == frame[p][1].cart_id
                old == carts[c]
                new == carts'[c]
            IN /\ Len(new) >= Len(old)
               /\ \A i \in 1..Len(old) : new[i].name = old[i].name
               /\ (/\ NameAndQuantity(old) = << <<"Apple", U32(2)>> >>
                   /\ NameAndQuantity(frame[p][1].items) =
                        << <<"Apple", U32(3)>>, <<"Banana", U32(1)>> >>)
                  => /\ NameAndQuantity(new) =
                          << <<"Apple", U32(5)>>, <<"Banana", U32(1)>> >>
                     /\ out'[1].resp.body.kind = "result"
                     /\ out'[1].resp.body.result.structuredContent.items = new
     /\ ToolSucceeds("checkout") =>
          LET X == out'[1].resp.body.result.structuredContent.cartId
          IN LastOp(X) = "sync" =>
               /\ X \in DOMAIN carts
               /\ out'[1].resp.body.result.content = CheckedOutText(carts[X])
               /\ X \notin DOMAIN carts'
     /\ (out' # <<>> /\ out'[1].req.route = "POST /checkout"
                     /\ out'[1].resp.body.kind = "rest") =>
          LET X == out'[1].resp.body.cartId
          IN LastOp(X) = "add" =>
               /\ X \in DOMAIN carts
               /\ X \notin DOMAIN carts'
    ]_vars

\* add_to_cart [Apple 3, Banana 1] on the synced cart [Apple 2] has answered.
C21_Witness ==
  /\ Answered("POST /mcp", "result")
  /\ out[1].req.body.method = "tools/call"
  /\ out[1].req.body.params.name = "add_to_cart"
  /\ opLog["A"] = <<"sync", "add">>
  /\ found # <<>> /\ found[1].present
  /\ NameAndQuantity(found[1].items) = << <<"Apple", U32(2)>> >>
  /\ "A" \in DOMAIN carts
  /\ NameAndQuantity(carts["A"]) = << <<"Apple", U32(5)>>, <<"Banana", U32(1)>> >>

\* A cart written by add_to_cart was removed by POST /checkout, and a cart
\* written by POST /sync_cart was removed by the checkout tool.
C21_WitnessRestCheckout ==
  /\ Answered("POST /checkout", "rest")
  /\ opLog[out[1].resp.body.cartId] = <<"add", "checkout">>
  /\ found # <<>> /\ found[1].present /\ found[1].items # <<>>
  /\ out[1].resp.body.cartId \notin DOMAIN carts
C21_WitnessToolCheckout ==
  /\ AnsweredCheckoutTool
  /\ opLog[CheckedOutId(out[1].resp)] = <<"sync", "checkout">>
  /\ found # <<>> /\ found[1].present /\ found[1].items # <<>>
  /\ out[1].resp.body.result.content.text = "Checked out now: {}"
  /\ CheckedOutId(out[1].resp) \notin DOMAIN carts

\* The request carries a cart_session cookie with a non-empty value.
CarriesSession(headers) == headers.present /\ SessionParts(headers) # {}

\* The step ends a REST call whose body was accepted and has no cartId.
RestAnswerWithoutCartId(route) ==
  /\ out' # <<>>
  /\ out'[1].req.route = route
  /\ out'[1].resp.body.kind = "rest"
  /\ out'[1].req.body.cartId = Missing

\* C22: a POST /sync_cart or POST /checkout without cartId that carries a
\* non-empty cart_session cookie works on the cart whose id is the value of
\* that cookie: the sync stores its items under that id and the checkout
\* removes the entry of that id and no other.
C22_SameCookieSameCart ==
  [][\A route \in {"POST /sync_cart", "POST /checkout"} :
       (RestAnswerWithoutCartId(route) /\ CarriesSession(out'[1].req.headers)) =>
         LET headers == out'[1].req.headers
             part == headers.parts[Min(SessionParts(headers))]
             X == out'[1].resp.body.cartId
         IN /\ part.prefixes = 1
            /\ X = part.rest
            /\ \A c \in AllIds \ {X} : CartAt(c)' = CartAt(c)
            /\ IF route = "POST /checkout" THEN X \notin DOMAIN carts'
               ELSE \A c \in AllIds : c = X => CartAt(c)' = <<ItemsOf(out'[1].req.body)>>
    ]_vars

\* The same for a Cookie header that is visible ASCII and whose cart_session
\* part names the id once.
SameCookieSameCartForPlainCookies ==
  [][\A route \in {"POST /sync_cart", "POST /checkout"} :
       (/\ RestAnswerWithoutCartId(route)
        /\ CarriesSession(out'[1].req.headers)
        /\ out'[1].req.headers.ascii
        /\ out'[1].req.headers.parts[Min(SessionParts(out'[1].req.headers))].prefixes = 1)
       => LET headers == out'[1].req.headers
              X == out'[1].resp.body.cartId
          IN /\ X = headers.parts[Min(SessionParts(headers))].rest
             /\ out'[1].resp.set_cookie = <<>>
             /\ \A c \in AllIds \ {X} : CartAt(c)' = CartAt(c)
             /\ IF route = "POST /checkout" THEN X \notin DOMAIN carts'
                ELSE \A c \in AllIds : c = X => CartAt(c)' = <<ItemsOf(out'[1].req.body)>>
    ]_vars

\* The request can write to the store: a tools/call, a sync or a checkout.
MayChangeStore(req) ==
  \/ req.route \in {"POST /sync_cart", "POST /checkout"}
  \/ /\ req.route = "POST /mcp"
     /\ req.body.extract = "Ok"
     /\ req.body.method = "tools/call"

\* C23: a step that answers initialize, notifications/initialized,
\* tools/list, resources/list, resources/read, ping or GET /mcp leaves the
\* store as it was, and a step that changes the store acts for a tools/call,
\* a POST /sync_cart or a POST /checkout.
C23_OnlyToolsAndRestWrite ==
  [][/\ (out' # <<>> /\ ~MayChangeStore(out'[1].req)) => carts' = carts
     /\ carts' # carts => \E req \in ActingRequests : MayChangeStore(req)
    ]_vars

\* Each of the six methods and the GET handshake has answered while the store
\* held items.
StatelessAnswered(method) ==
  /\ out # <<>>
  /\ IF method = "GET /mcp" THEN out[1].req.route = "GET /mcp"
     ELSE /\ out[1].req.route = "POST /mcp"
          /\ out[1].req.body.extract = "Ok"
          /\ out[1].req.body.method = method
  /\ \E c \in DOMAIN carts : carts[c] # <<>>
C23_Witness == StatelessAnswered("GET /mcp")
C23_WitnessInitialize == StatelessAnswered("initialize")
C23_WitnessInitialized == StatelessAnswered("notifications/initialized")
C23_WitnessResourcesList == StatelessAnswered("resources/list")
C23_WitnessResourcesRead == StatelessAnswered("resources/read")
C23_WitnessPing == StatelessAnswered("ping")

\* The step ends a tools/call with error -32602.
ToolCallRejected ==
  /\ out' # <<>>
  /\ out'[1].req.route = "POST /mcp"
  /\ out'[1].req.body.extract = "Ok"
  /\ out'[1].req.body.method = "tools/call"
  /\ out'[1].resp.body.kind = "error"
  /\ out'[1].resp.body.error.code = -32602

\* C24: a step that ends a tools/call with error -32602 leaves the whole
\* store as it was: it creates no cart, empty or not, and merges no item.
C24_RejectedCallWritesNothing ==
  [][ToolCallRejected => carts' = carts]_vars

\* An add_to_cart whose second item is invalid, naming cart A, was rejected
\* while the store had other carts but none for A.
C24_Witness ==
  /\ Answered("POST /mcp", "error")
  /\ out[1].req.body.extract = "Ok"
  /\ out[1].req.body.method = "tools/call"
  /\ out[1].req.body.params.name = "add_to_cart"
  /\ out[1].resp.body.error.code = -32602
  /\ out[1].req.body.params.hasArguments
  /\ out[1].req.body.params.arguments.cartId = "A"
  /\ Len(out[1].req.body.params.arguments.items) = 2
  /\ "A" \notin DOMAIN carts
  /\ carts # <<>>

\* The cart stored under c holds, once per name, the exact sum of the
\* quantities the add_to_cart calls sent since the cart was last absent.
StoredIsAccepted(c) ==
  /\ c \in DOMAIN carts
  /\ NamesUnique(carts[c])
  /\ NamesOf(carts[c]) = DOMAIN tally[c]
  /\ \A i \in DOMAIN carts[c] :
       NatOfU32(carts[c][i].quantity) = tally[c][carts[c][i].name]

\* The step ends an MCP checkout of cart c.
CheckoutToolStep(c) ==
  /\ ToolSucceeds("checkout")
  /\ out'[1].resp.body.result.structuredContent.cartId = c

\* Every sum sent to cart c since it was last absent fits a u32.
SumsFit(c) == \A n \in DOMAIN tally[c] : tally[c][n][1] = 0

\* C25: add_to_cart and checkout calls on one cart id take effect one at a
\* time.  In a build where no merge has panicked, while add_to_cart alone has
\* written to a cart since it was absent the cart holds exactly the quantities
\* those calls sent, and an MCP checkout reports exactly those quantities in
\* its "Checked out now" text and removes them: none is lost, none is left to
\* be reported again.
C25_AddAndCheckoutAreAtomic ==
  [][\A c \in AllIds :
       overflowChecks' # {TRUE} =>
         /\ AddsOnly(c)' => StoredIsAccepted(c)'
         /\ (CheckoutToolStep(c) /\ AddsOnly(c)) =>
              /\ StoredIsAccepted(c)
              /\ out'[1].resp.body.result.content = CheckedOutText(carts[c])
              /\ c \notin DOMAIN carts'
              /\ tally'[c] = <<>>
    ]_vars

\* The same in every build, as long as the sums sent fit a u32.
AtomicWhileSumsFit ==
  [][\A c \in AllIds :
       /\ (AddsOnly(c)' /\ SumsFit(c)') => StoredIsAccepted(c)'
       /\ (CheckoutToolStep(c) /\ AddsOnly(c) /\ SumsFit(c)) =>
            /\ StoredIsAccepted(c)
            /\ out'[1].resp.body.result.content = CheckedOutText(carts[c])
            /\ c \notin DOMAIN carts'
            /\ tally'[c] = <<>>
    ]_vars

\* A checkout of cart A waits for the lock while an add_to_cart merges into A,
\* which holds the items of an earlier add_to_cart.
InterleavedAddAndCheckout ==
  /\ pc["w1"] = "merge" /\ frame["w1"][1].cart_id = "A"
  /\ pc["w2"] = "blocked" /\ frame["w2"][1].handler = "checkout_tool"
  /\ frame["w2"][1].cart_id = "A"
  /\ opLog["A"] = <<"add">>
  /\ "A" \in DOMAIN carts /\ carts["A"] # <<>>

\* a <= b on u32.
U32Leq(a, b) == a[1] < b[1] \/ (a[1] = b[1] /\ a[2] <= b[2])

\* C26: a merge by add_to_cart never lowers the stored quantity of an item
\* the cart already held; in particular a sum above 2^32 - 1 is not stored
\* reduced modulo 2^32.
C26_QuantityNeverDecreases ==
  [][\A p \in Procs :
       MergeStep(p) =>
         LET c == frame[p][1].cart_id
         IN \A i \in DOMAIN carts[c] :
              /\ i \in DOMAIN carts'[c]
              /\ U32Leq(carts[c][i].quantity, carts'[c][i].quantity)
    ]_vars

\* C27: a step that ends an MCP checkout answers "Cart is empty." exactly when
\* the store has no entry for the resolved id; an entry with zero items is
\* removed and reported as "Checked out now: " with an empty summary.
C27_EmptyTextOnlyWithoutEntry ==
  [][\A X \in AllIds :
       CheckoutToolStep(X) =>
         LET content == out'[1].resp.body.result.content
         IN /\ content.text = "Cart is empty." <=> X \notin DOMAIN carts
            /\ (X \in DOMAIN carts /\ carts[X] = <<>>) =>
                 /\ content = [text |-> "Checked out now: {}", summary |-> <<>>]
                 /\ X \notin DOMAIN carts'
    ]_vars

\* An MCP checkout of a cart that a sync or an add_to_cart with an empty list
\* created has answered.
CheckedOutEmptyCart(kind) ==
  /\ AnsweredCheckoutTool
  /\ found # <<>> /\ found[1].present /\ found[1].items = <<>>
  /\ opLog[CheckedOutId(out[1].resp)] = <<kind, "checkout">>
  /\ out[1].resp.body.result.content.text = "Checked out now: {}"
  /\ CheckedOutId(out[1].resp) \notin DOMAIN carts
C27_Witness == CheckedOutEmptyCart("add")
C27_WitnessSync == CheckedOutEmptyCart("sync")

\* A shard's lock is held only by a worker that is merging for add_to_cart
\* into a cart of that shard.
GuardOnlyByAddToCart ==
  \A s \in Shards :
    shardLock[s] # NoOwner =>
      /\ pc[shardLock[s]] = "merge"
      /\ frame[shardLock[s]][1].handler = "add_to_cart"
      /\ frame[shardLock[s]][1].shard = s

\* No worker holds one lock and waits for another, and a worker that waits
\* can go on or waits for a worker that can.
NoDeadlock ==
  \A p \in Procs :
    pc[p] = "blocked" =>
      \/ ShardFree(frame[p][1].shard)
      \/ \E q \in Procs \ {p} :
           /\ shardLock[frame[p][1].shard] = q
           /\ pc[q] = "merge"
           /\ frame[q][1].cart_id \in DOMAIN carts

\* C28: every request that has begun completes, and it completes with one
\* response; the lock of a shard is held only by an add_to_cart that merges,
\* and no state is deadlocked.
C28_EveryRequestCompletes ==
  /\ \A p \in Procs : (pc[p] # "idle") ~> (pc[p] = "idle")
  /\ [](GuardOnlyByAddToCart /\ NoDeadlock)
  /\ [][out' # <<>> => (Len(out') = 1 /\ out'[1].resp.body.kind # "aborted")]_vars

\* The same but for the response of a request whose merge panics.
CompletesUnlessMergePanics ==
  /\ \A p \in Procs : (pc[p] # "idle") ~> (pc[p] = "idle")
  /\ [](GuardOnlyByAddToCart /\ NoDeadlock)
  /\ [][out' # <<>> => Len(out') = 1]_vars

\* C29: a merge by add_to_cart into a cart whose names are pairwise distinct
\* leaves them pairwise distinct, also when the incoming list repeats a name:
\* [Banana 2, Banana 2] sent to a cart without Banana appends one Banana with
\* quantity 4.
C29_AddKeepsNamesUnique ==
  [][\A p \in Procs :
       (MergeStep(p) /\ NamesUnique(carts[frame[p][1].cart_id])) =>
         LET c == frame[p][1].cart_id
             old == carts[c]
             new == carts'[c]
         IN /\ NamesUnique(new)
            /\ (/\ NameAndQuantity(frame[p][1].items) =
                     << <<"Banana", U32(2)>>, <<"Banana", U32(2)>> >>
                /\ "Banana" \notin NamesOf(old))
               => NameAndQuantity(new) =
                    NameAndQuantity(old) \o << <<"Banana", U32(4)>> >>
    ]_vars

\* add_to_cart [Banana 2, Banana 2] has answered for a cart that held Apple
\* and no Banana: the cart holds Apple and one Banana with quantity 4.
C29_Witness ==
  /\ Answered("POST /mcp", "result")
  /\ out[1].req.body.method = "tools/call"
  /\ out[1].req.body.params.name = "add_to_cart"
  /\ Len(out[1].req.body.params.arguments.items) = 2
  /\ NamesOf(out[1].req.body.params.arguments.items) = {"Banana"}
  /\ found # <<>> /\ NamesOf(found[1].items) = {"Apple"}
  /\ LET c == out[1].resp.body.result.structuredContent.cartId
     IN /\ c \in DOMAIN carts
        /\ Len(carts[c]) = 2
        /\ carts[c][2].name = "Banana"
        /\ carts[c][2].quantity = U32(4)

\* C30: the response of a POST /sync_cart or POST /checkout whose body was
\* accepted has a Set-Cookie header exactly when the request carried no
\* cart_session cookie with a non-empty value; its id is one generated for
\* the request and is the cart id used when the body has no cartId; a cartId
\* in the body is the cart id used whatever the session is.
C30_SetCookieOnlyForNewSession ==
  [][\A route \in {"POST /sync_cart", "POST /checkout"} :
       (out' # <<>> /\ out'[1].req.route = route /\ out'[1].resp.body.kind = "rest") =>
         LET req == out'[1].req
             resp == out'[1].resp
         IN /\ resp.set_cookie # <<>> <=> ~CarriesSession(req.headers)
            /\ resp.set_cookie # <<>> =>
                 /\ Len(resp.set_cookie) = 1
                 /\ resp.set_cookie[1] \in UuidIds \ KnownIds
                 /\ req.body.cartId = Missing => resp.body.cartId = resp.set_cookie[1]
            /\ req.body.cartId # Missing => resp.body.cartId = req.body.cartId
    ]_vars

\* The same with a cookie counted only when the Cookie header is visible
\* ASCII.
SetCookieForReadableHeaders ==
  [][\A route \in {"POST /sync_cart", "POST /checkout"} :
       (out' # <<>> /\ out'[1].req.route = route /\ out'[1].resp.body.kind = "rest") =>
         LET req == out'[1].req
             resp == out'[1].resp
         IN /\ resp.set_cookie # <<>> <=>
                 ~(req.headers.ascii /\ CarriesSession(req.headers))
            /\ resp.set_cookie # <<>> =>
                 /\ Len(resp.set_cookie) = 1
                 /\ resp.set_cookie[1] \in UuidIds \ KnownIds
                 /\ req.body.cartId = Missing => resp.body.cartId = resp.set_cookie[1]
            /\ req.body.cartId # Missing => resp.body.cartId = req.body.cartId
    ]_vars

====
